---- MODULE Spec2Model ----
(***************************************************************************)
(* Model of src/app.py: the ORATS options analysis page.  One run of the   *)
(* script is one behaviour: the ticker is read, three market-data queries  *)
(* are issued in sequence (summaries, strikes, cores), the strikes are     *)
(* filtered to the next 60 days and reduced to the nearest-ATM strike per  *)
(* expiration, a prompt is built and one chat completion is requested.     *)
(*                                                                         *)
(* Data frames are sequences of records (one record per row); the columns  *)
(* of a frame are the union of the rows' fields, as pandas builds them     *)
(* from a list of JSON objects.  Timestamps are integers counting half     *)
(* days since midnight of day 0, dates are integers counting days, prices  *)
(* and strikes are integers.  An uncaught Python exception ends the run in *)
(* pc = "crashed" with the exception's type in `exception`.                *)
(***************************************************************************)
EXTENDS Integers, Sequences, FiniteSets, TLC

VARIABLES
    pc,              \* position of the script
    ticker,          \* line 22
    df_summaries,    \* line 30
    current_price,   \* lines 36/39: None or <<price>>
    df_strikes,      \* lines 50-56
    today,           \* line 60
    df_two_months,   \* lines 62-64
    df_atm_grouped,  \* lines 66-83
    df_cores,        \* line 100
    prompt_user,     \* lines 116-135: None or <<prompt>>
    completion,      \* lines 147-156: "pending", "answered" or "raised"
    calls,           \* outbound requests issued so far, in order
    out,             \* what the page shows so far, in order
    exception        \* "none" or the type of the uncaught exception

vars == <<pc, ticker, df_summaries, current_price, df_strikes, today,
          df_two_months, df_atm_grouped, df_cores, prompt_user, completion,
          calls, out, exception>>

----------------------------------------------------------------------------
(* Bounds and input domains *)

MaxLen == 3

\* the days datetime.date.today() may return
Todays == {0, 1}

\* the horizon of the window, in days
WindowDays == 60

\* Python's None, and a present value v
None == <<>>
Some(v) == <<v>>

\* what the user may type into the text box
TickerInputs == {"", "  ", " aapl", "AAPL"}

\* stockPrice values of the summaries record
Prices == {0, 20, 40}

\* strikes of the chain
Strikes == {19, 21, 24}

\* expiration timestamps of the chain, in half days:
\* day 0 at noon, day 60 at noon, day 61 at midnight: with today = 0 the
\* first two are the ends of the window and the third is past it, with
\* today = 1 the first is before the window and the third is its far end
Timestamps == {1, 2 * WindowDays + 1, 2 * WindowDays + 2}

\* the name of the column that carries the expiration in a strikes response
DateColumns == {"expiration", "expirDate", "updatedAt"}

SeqsUpTo(S, n) == UNION {[1..k -> S] : k \in 0..n}

----------------------------------------------------------------------------
(* HTTP responses and data frames *)

\* a response whose body is not JSON
NotJson == [kind |-> "notjson", keys |-> {}, data |-> <<>>]

\* a JSON object without a "data" member
NoData == [kind |-> "object", keys |-> {}, data |-> <<>>]

\* a JSON object with a "data" array of flat records
WithData(rows) == [kind |-> "object", keys |-> {"data"}, data |-> rows]

\* resp.get("data", [])
GetData(resp) == IF "data" \in resp.keys THEN resp.data ELSE <<>>

\* df.columns
Columns(df) == UNION {DOMAIN df[i] : i \in 1..Len(df)}

\* df.empty
Empty(df) == Len(df) = 0

\* pd.to_datetime(x).dt.date: the time of day is dropped
ToDate(ts) == ts \div 2

\* df[col]: the values of a column, row by row
Column(df, col) == [i \in 1..Len(df) |-> df[i][col]]

\* pd.to_datetime(series).dt.date
ToDates(series) == [i \in 1..Len(series) |-> ToDate(series[i])]

\* df[col] = series: the column is added or replaced, row by row
SetColumn(df, col, series) ==
    [i \in 1..Len(df) |->
        [c \in DOMAIN df[i] \cup {col} |->
            IF c = col THEN series[i] ELSE df[i][c]]]

\* str.strip().upper() on the inputs of TickerInputs
StripUpper(s) ==
    CASE s = "" -> ""
      [] s = "  " -> ""
      [] s = " aapl" -> "AAPL"
      [] s = "AAPL" -> "AAPL"

\* the responses the summaries endpoint may give: no JSON, no data member,
\* no records, one record without stockPrice, one record with stockPrice
SummaryResponses ==
    {NotJson, NoData, WithData(<<>>), WithData(<<[ticker |-> "AAPL"]>>)}
    \cup {WithData(<<[ticker |-> "AAPL", stockPrice |-> p]>>) : p \in Prices}

\* the columns the page shows of the ATM table (line 89)
ShownColumns ==
    {"expiration", "strike", "callMidIv", "putMidIv", "delta", "gamma", "theta", "vega"}

\* one strikes record with its expiration under column col; the implied
\* volatilities and the Greeks are carried along and never computed on
StrikeRow(col, ts, k) ==
    [c \in {col} \cup (ShownColumns \ {"expiration"}) |->
        IF c = col THEN ts ELSE IF c = "strike" THEN k ELSE 0]

\* the responses the strikes endpoint may give
StrikesResponses ==
    {NotJson, NoData}
    \cup {WithData([i \in 1..Len(s) |-> StrikeRow(col, s[i][1], s[i][2])]) :
            s \in SeqsUpTo(Timestamps \X Strikes, MaxLen), col \in DateColumns}

\* the responses the cores endpoint may give
CoresResponses ==
    {NotJson, NoData, WithData(<<>>), WithData(<<[ticker |-> "AAPL", contango |-> 3]>>)}

----------------------------------------------------------------------------
(* The window filter and the nearest-ATM selection *)

Abs(x) == IF x < 0 THEN -x ELSE x

\* today + datetime.timedelta(days=60)
two_months(day) == day + WindowDays

\* the mask with the far end of the window left out
InWindowExclusive(expiration, day) ==
    expiration >= day /\ expiration < two_months(day)

\* the row mask of lines 62-64, for one expiration date
InWindow(expiration, day) ==
    expiration >= day /\ expiration <= two_months(day)

\* df[mask]: the rows whose entry of the boolean mask is true, in their order
RECURSIVE Filter(_, _)
Filter(df, mask) ==
    IF df = <<>> THEN <<>>
    ELSE (IF Head(mask) THEN <<Head(df)>> ELSE <<>>)
            \o Filter(Tail(df), Tail(mask))

\* lines 62-64
WindowFilter(df, day) ==
    Filter(df, [i \in 1..Len(df) |-> InWindow(df[i].expiration, day)])

\* the truth value of current_price in the condition of line 67:
\* None and 0.0 are false
Truthy(price) == price # None /\ price[1] # 0

\* line 67
AtmGuard(df, price) == ~Empty(df) /\ Truthy(price)

\* lines 68-70, scaled by 20 to stay in the integers:
\* |strike - p| <= 0.05 * p  iff  20 * |strike - p| <= p
InBand(strike, p) == 20 * Abs(strike - p) <= p

\* lines 69-73: the rows within 5% of the price, or all rows if there is none
Candidates(df, p) ==
    LET df_atm == Filter(df, [i \in 1..Len(df) |-> InBand(df[i].strike, p)])
    IN  IF Empty(df_atm) THEN df ELSE df_atm

\* Series.idxmin(): the first position of the smallest distance
idxmin(group, p) ==
    CHOOSE i \in 1..Len(group) :
        /\ \A j \in 1..Len(group) :
              Abs(group[i].strike - p) <= Abs(group[j].strike - p)
        /\ \A j \in 1..(i - 1) :
              Abs(group[j].strike - p) > Abs(group[i].strike - p)

\* lines 75-77
closest_atm(group, p) == group[idxmin(group, p)]

\* the keys of groupby("expiration")
GroupKeys(df) == {df[i].expiration : i \in 1..Len(df)}

\* a finite set of integers in increasing order (groupby sorts its keys)
RECURSIVE Sorted(_)
Sorted(S) ==
    IF S = {} THEN <<>>
    ELSE LET m == CHOOSE x \in S : \A y \in S : x <= y
         IN  <<m>> \o Sorted(S \ {m})

\* lines 79-83: one row per expiration, in the order of the keys
GroupApply(df, p) ==
    LET keys == Sorted(GroupKeys(df))
    IN  [k \in 1..Len(keys) |->
            closest_atm(Filter(df, [i \in 1..Len(df) |->
                                        df[i].expiration = keys[k]]), p)]

\* the selection with a missing price taken as 0.0 and no test of the price
SelectAtmNoPriceTest(df, price) ==
    LET p == IF price = None THEN 0 ELSE price[1]
    IN  IF ~Empty(df) THEN GroupApply(Candidates(df, p), p) ELSE <<>>

\* lines 66-83
SelectAtm(df, price) ==
    IF AtmGuard(df, price)
    THEN GroupApply(Candidates(df, price[1]), price[1])
    ELSE <<>>

----------------------------------------------------------------------------
(* The prompt *)

\* DataFrame.to_string(index=False), or the placeholder for an empty frame
Table(df) == [text |-> "", table |-> df]
Placeholder(s) == [text |-> s, table |-> <<>>]

\* lines 113 and 114
TextOrPlaceholder(df, s) == IF ~Empty(df) THEN Table(df) ELSE Placeholder(s)

\* format(current_price, ".2f") accepts a float only; the value in hundredths
CanFormat(price) == price # None
Format2f(price) == price[1] * 100

\* lines 112-135
BuildPrompt(t, summaries, atm, cores, price) ==
    [ticker |-> t,
     summaries_text |-> Table(summaries),
     atm_text |-> TextOrPlaceholder(atm, "No ATM data"),
     cores_text |-> TextOrPlaceholder(cores, "No Core Data"),
     price_text |-> Format2f(price)]

----------------------------------------------------------------------------
(* The run *)

Init ==
    /\ pc = "input"
    /\ ticker = ""
    /\ df_summaries = <<>>
    /\ current_price = None
    /\ df_strikes = <<>>
    /\ today = 0
    /\ df_two_months = <<>>
    /\ df_atm_grouped = <<>>
    /\ df_cores = <<>>
    /\ prompt_user = None
    /\ completion = "pending"
    /\ calls = <<>>
    /\ out = <<>>
    /\ exception = "none"

\* an exception that nothing catches ends the run
Raise(exc) == pc' = "crashed" /\ exception' = exc

\* line 22 and the condition of line 24
EnterTicker ==
    /\ pc = "input"
    /\ \E s \in TickerInputs :
          /\ ticker' = StripUpper(s)
          /\ pc' = IF StripUpper(s) # "" THEN "summaries" ELSE "end"
    /\ UNCHANGED <<df_summaries, current_price, df_strikes, today, df_two_months,
                   df_atm_grouped, df_cores, prompt_user, completion, calls, out, exception>>

\* lines 28-30: Response.json() raises when the body is not JSON
FetchSummaries ==
    /\ pc = "summaries"
    /\ calls' = Append(calls, "summaries")
    /\ \E resp \in SummaryResponses :
          IF resp.kind = "notjson"
          THEN Raise("JSONDecodeError") /\ UNCHANGED df_summaries
          ELSE /\ df_summaries' = GetData(resp)
               /\ pc' = "check"
               /\ UNCHANGED exception
    /\ UNCHANGED <<ticker, current_price, df_strikes, today, df_two_months,
                   df_atm_grouped, df_cores, prompt_user, completion, out>>

\* lines 32-43 with the rest of the script outside the else branch
CheckSummariesNoHalt ==
    /\ pc = "check"
    /\ IF Empty(df_summaries)
       THEN /\ out' = Append(out, "error: No summary data returned from ORATS")
            /\ UNCHANGED current_price
       ELSE IF "stockPrice" \in Columns(df_summaries)
       THEN /\ current_price' = Some(df_summaries[1].stockPrice)
            /\ out' = out \o <<"Current price", "Summaries Data",
                               "table: summaries data">>
       ELSE /\ current_price' = None
            /\ out' = out \o <<"No 'stockPrice' in summaries.", "Summaries Data",
                               "table: summaries data">>
    /\ pc' = "strikes"
    /\ UNCHANGED <<ticker, df_summaries, df_strikes, today, df_two_months,
                   df_atm_grouped, df_cores, prompt_user, completion, calls, exception>>

\* lines 32-43
CheckSummaries ==
    /\ pc = "check"
    /\ IF Empty(df_summaries)
       THEN /\ out' = Append(out, "error: No summary data returned from ORATS")
            /\ pc' = "end"
            /\ UNCHANGED current_price
       ELSE /\ IF "stockPrice" \in Columns(df_summaries)
               THEN /\ current_price' = Some(df_summaries[1].stockPrice)
                    /\ out' = out \o <<"Current price", "Summaries Data",
                               "table: summaries data">>
               ELSE /\ current_price' = None
                    /\ out' = out \o <<"No 'stockPrice' in summaries.", "Summaries Data",
                               "table: summaries data">>
            /\ pc' = "strikes"
    /\ UNCHANGED <<ticker, df_summaries, df_strikes, today, df_two_months,
                   df_atm_grouped, df_cores, prompt_user, completion, calls, exception>>

\* lines 48-50
FetchStrikes ==
    /\ pc = "strikes"
    /\ calls' = Append(calls, "strikes")
    /\ \E resp \in StrikesResponses :
          IF resp.kind = "notjson"
          THEN Raise("JSONDecodeError") /\ UNCHANGED df_strikes
          ELSE /\ df_strikes' = GetData(resp)
               /\ pc' = "normalize"
               /\ UNCHANGED exception
    /\ UNCHANGED <<ticker, df_summaries, current_price, today, df_two_months,
                   df_atm_grouped, df_cores, prompt_user, completion, out>>

\* lines 53-58
NormalizeExpiration ==
    /\ pc = "normalize"
    /\ IF "expiration" \in Columns(df_strikes)
       THEN /\ df_strikes' = SetColumn(df_strikes, "expiration",
                                       ToDates(Column(df_strikes, "expiration")))
            /\ UNCHANGED out
       ELSE IF "expirDate" \in Columns(df_strikes)
       THEN /\ df_strikes' = SetColumn(df_strikes, "expiration",
                                       ToDates(Column(df_strikes, "expirDate")))
            /\ UNCHANGED out
       ELSE /\ out' = Append(out, "error: Strikes data missing 'expiration' or 'expirDate'.")
            /\ UNCHANGED df_strikes
    /\ pc' = "window"
    /\ UNCHANGED <<ticker, df_summaries, current_price, today, df_two_months,
                   df_atm_grouped, df_cores, prompt_user, completion, calls, exception>>

\* lines 60-64: df_strikes["expiration"] raises when there is no such column
FilterWindow ==
    /\ pc = "window"
    /\ \E d \in Todays : today' = d
    /\ IF "expiration" \in Columns(df_strikes)
       THEN /\ df_two_months' = WindowFilter(df_strikes, today')
            /\ pc' = "atm"
            /\ UNCHANGED exception
       ELSE Raise("KeyError") /\ UNCHANGED df_two_months
    /\ UNCHANGED <<ticker, df_summaries, current_price, df_strikes,
                   df_atm_grouped, df_cores, prompt_user, completion, calls, out>>

\* lines 66-89: showing the table raises when one of its columns is missing
SelectATM ==
    /\ pc = "atm"
    /\ df_atm_grouped' = SelectAtm(df_two_months, current_price)
    /\ IF Empty(df_atm_grouped')
       THEN /\ out' = out \o <<"ATM Options (Next 2 Months)",
                               "No ATM options found within two months.">>
            /\ pc' = "cores"
            /\ UNCHANGED exception
       ELSE IF ShownColumns \subseteq Columns(df_atm_grouped')
       THEN /\ out' = out \o <<"ATM Options (Next 2 Months)", "table: ATM options">>
            /\ pc' = "cores"
            /\ UNCHANGED exception
       ELSE /\ out' = Append(out, "ATM Options (Next 2 Months)")
            /\ Raise("KeyError")
    /\ UNCHANGED <<ticker, df_summaries, current_price, df_strikes, today,
                   df_two_months, df_cores, prompt_user, completion, calls>>

\* lines 94-106
FetchCores ==
    /\ pc = "cores"
    /\ calls' = Append(calls, "cores")
    /\ \E resp \in CoresResponses :
          IF resp.kind = "notjson"
          THEN Raise("JSONDecodeError") /\ UNCHANGED <<df_cores, out>>
          ELSE /\ df_cores' = GetData(resp)
               /\ out' = out \o <<"ORATS Core Data",
                                  IF Empty(df_cores')
                                  THEN "No core data returned."
                                  ELSE "table: core data">>
               /\ pc' = "prompt"
               /\ UNCHANGED exception
    /\ UNCHANGED <<ticker, df_summaries, current_price, df_strikes, today,
                   df_two_months, df_atm_grouped, prompt_user, completion>>

\* lines 112-140: formatting None with ".2f" raises
Prompt ==
    /\ pc = "prompt"
    /\ IF CanFormat(current_price)
       THEN /\ prompt_user' = Some(BuildPrompt(ticker, df_summaries,
                                    df_atm_grouped, df_cores, current_price))
            /\ pc' = "completion"
            /\ UNCHANGED exception
       ELSE Raise("TypeError") /\ UNCHANGED prompt_user
    /\ UNCHANGED <<ticker, df_summaries, current_price, df_strikes, today,
                   df_two_months, df_atm_grouped, df_cores, completion, calls, out>>

\* lines 145-157 without the except clause
CallCompletionUncaught ==
    /\ pc = "completion"
    /\ calls' = Append(calls, "completion")
    /\ out' = Append(out, "AI Interpretation")
    /\ \E raised \in BOOLEAN :
          IF raised
          THEN /\ completion' = "raised"
               /\ Raise("APIError")
          ELSE /\ completion' = "answered"
               /\ pc' = "final"
               /\ UNCHANGED exception
    /\ UNCHANGED <<ticker, df_summaries, current_price, df_strikes, today,
                   df_two_months, df_atm_grouped, df_cores, prompt_user>>

\* lines 145-157: the service answers or raises; the exception is caught
CallCompletion ==
    /\ pc = "completion"
    /\ calls' = Append(calls, "completion")
    /\ \E raised \in BOOLEAN :
          IF raised
          THEN /\ completion' = "raised"
               /\ out' = out \o <<"AI Interpretation", "error: Error with OpenAI API">>
          ELSE /\ completion' = "answered"
               /\ out' = out \o <<"AI Interpretation", "ai_analysis">>
    /\ pc' = "final"
    /\ UNCHANGED <<ticker, df_summaries, current_price, df_strikes, today,
                   df_two_months, df_atm_grouped, df_cores, prompt_user, exception>>

\* line 159
Complete ==
    /\ pc = "final"
    /\ out' = Append(out, "Analysis complete.")
    /\ pc' = "end"
    /\ UNCHANGED <<ticker, df_summaries, current_price, df_strikes, today,
                   df_two_months, df_atm_grouped, df_cores, prompt_user,
                   completion, calls, exception>>

Next ==
    \/ EnterTicker
    \/ FetchSummaries
    \/ CheckSummaries
    \/ FetchStrikes
    \/ NormalizeExpiration
    \/ FilterWindow
    \/ SelectATM
    \/ FetchCores
    \/ Prompt
    \/ CallCompletion
    \/ Complete

Spec == Init /\ [][Next]_vars

----------------------------------------------------------------------------
(* Vocabulary of the properties *)

\* request c has been issued
Called(c) == \E i \in 1..Len(calls) : calls[i] = c

\* the number of times request c has been issued
Count(c) == Cardinality({i \in 1..Len(calls) : calls[i] = c})

\* the page shows entry e
Shown(e) == \E i \in 1..Len(out) : out[i] = e

\* the summaries query has returned, and it returned no record
SummariesReturnedEmpty ==
    /\ Called("summaries")
    /\ pc \notin {"check", "crashed"}
    /\ Empty(df_summaries)

\* the strikes query has returned (its body was JSON)
StrikesReturned ==
    /\ Called("strikes")
    /\ pc # "normalize"
    /\ ~(exception = "JSONDecodeError" /\ ~Called("cores"))

\* the window filter has run on a frame with a normalized expiration
Filtered ==
    /\ StrikesReturned
    /\ pc # "window"
    /\ "expiration" \in Columns(df_strikes)

\* the ATM selection step has run
Selected == Filtered /\ pc # "atm"

\* the positions of df_strikes whose date lies in [today, today + 60]
WindowPositions ==
    {i \in 1..Len(df_strikes) :
        today <= df_strikes[i].expiration /\ df_strikes[i].expiration <= today + 60}

\* the k-th smallest element of a set of positions
Kth(I, k) == CHOOSE i \in I : Cardinality({j \in I : j <= i}) = k

\* the distance of a row's strike to a price
Dist(r, p) == Abs(r.strike - p)

\* the windowed rows within 5% of price p, and the candidates drawn from them
Band(p) == SelectSeq(df_two_months, LAMBDA r : 20 * Dist(r, p) <= p)
Cand(p) == IF Band(p) = <<>> THEN df_two_months ELSE Band(p)

----------------------------------------------------------------------------
(* Properties *)

\* C1: when the quote-summary query returns zero records the run halts: the
\* error is the only output and the strikes, cores and completion requests
\* are never issued (the halted state has no successor).
C1_HaltOnEmptySummaries ==
    SummariesReturnedEmpty =>
        /\ pc = "end"
        /\ out = <<"error: No summary data returned from ORATS">>
        /\ calls = <<"summaries">>
        /\ ~ENABLED Next

C1_Witness ==
    /\ SummariesReturnedEmpty
    /\ pc = "end"
    /\ Shown("error: No summary data returned from ORATS")

\* C2: when the strikes records carry neither an expiration nor an expirDate
\* column, the error is shown, nothing raises, and the window filter and the
\* ATM selection get an empty set on the way to the core-analytics fetch.
C2_MissingColumnContinues ==
    (/\ StrikesReturned
     /\ ~Empty(df_strikes)
     /\ Columns(df_strikes) \cap {"expiration", "expirDate"} = {}
     /\ ~Called("cores")) =>
        /\ Shown("error: Strikes data missing 'expiration' or 'expirDate'.")
        /\ pc # "crashed"
        /\ Empty(df_two_months)
        /\ Empty(df_atm_grouped)

\* C3: with a non-empty quote summary, a strikes query or a cores query that
\* returns zero records does not abort the run: the prompt is built with the
\* placeholder for the empty table and the completion request is issued.
C3_EmptyTablesDegrade ==
    /\ (StrikesReturned /\ Empty(df_strikes) /\ ~Called("cores")) =>
            pc # "crashed"
    /\ (StrikesReturned /\ Empty(df_strikes) /\ pc = "end") =>
            /\ Called("completion")
            /\ prompt_user # None
            /\ prompt_user[1].atm_text = Placeholder("No ATM data")
    /\ (Shown("No core data returned.") /\ pc = "end") =>
            /\ Called("completion")
            /\ prompt_user # None
            /\ prompt_user[1].cores_text = Placeholder("No Core Data")

\* C4: a response that cannot be parsed into records never fails the run
\* with an exception.
C4_UnparsableIsEmpty == exception # "JSONDecodeError"

\* C5: when the completion call raises, the error is shown, the run does not
\* crash and goes on to "Analysis complete", what the page showed before the
\* call stays, and the completion request is issued at most once.
C5_Inv ==
    /\ Count("completion") <= 1
    /\ completion = "raised" =>
        /\ Count("completion") = 1
        /\ exception = "none"
        /\ pc \in {"final", "end"}
        /\ Shown("error: Error with OpenAI API")
        /\ Shown("Summaries Data")
        /\ Shown("table: summaries data")
        /\ Shown("ATM Options (Next 2 Months)")
        /\ Shown("ORATS Core Data")
        /\ pc = "final" => ENABLED Complete
        /\ pc = "end" => out[Len(out)] = "Analysis complete."

C5_OutputKept ==
    pc \in {"completion", "final"} =>
        (Len(out') >= Len(out) /\ SubSeq(out', 1, Len(out)) = out)

C5_CompletionErrorCaught == []C5_Inv /\ [][C5_OutputKept]_vars

C5_Witness ==
    /\ completion = "raised"
    /\ pc = "end"
    /\ Shown("error: Error with OpenAI API")
    /\ out[Len(out)] = "Analysis complete."

\* C6: with a non-empty quote summary that has no stockPrice field, the
\* prompt is still built and no exception ends the run before the completion
\* request.
C6_AbsentPricePrompt ==
    (/\ ~Empty(df_summaries)
     /\ current_price = None
     /\ Called("cores")
     /\ exception # "JSONDecodeError"
     /\ pc # "prompt") =>
        /\ pc # "crashed"
        /\ prompt_user # None

\* C7: if the current price is absent or the windowed set is empty, the ATM
\* selection result is empty whatever the strikes are.
C7_NoPriceOrEmptyWindow ==
    (Selected /\ (current_price = None \/ Empty(df_two_months))) =>
        Empty(df_atm_grouped)

C7_Witness ==
    /\ Selected
    /\ pc = "cores"
    /\ current_price = None
    /\ Len(df_two_months) >= 2
    /\ Empty(df_atm_grouped)

\* C8: the window filter keeps exactly the rows with
\* today <= expiration <= today + 60, in their input order, and leaves its
\* input as it was.
C8_Inv ==
    Filtered =>
        /\ Len(df_two_months) = Cardinality(WindowPositions)
        /\ \A k \in 1..Len(df_two_months) :
              df_two_months[k] = df_strikes[Kth(WindowPositions, k)]

C8_InputKept == pc = "window" => df_strikes' = df_strikes

C8_WindowFilterExact == []C8_Inv /\ [][C8_InputKept]_vars

C8_Witness ==
    /\ Filtered
    /\ Len(df_strikes) = 3
    /\ Len(df_two_months) = 2
    /\ df_strikes[1].expiration = today + 60
    /\ df_strikes[2].expiration = today + 61
    /\ df_strikes[3].expiration = today
    /\ df_strikes[1].strike # df_strikes[3].strike

\* C9: for a non-empty candidate set and a present current price, the result
\* has exactly one row for each expiration date of the candidate set and no
\* other; the row is a candidate of that date, none of that date is strictly
\* nearer to the price, and every equidistant one of that date comes later.
C9_OnePerExpirationNearestFirst ==
    (Selected /\ ~Empty(df_two_months) /\ current_price # None) =>
        LET p == current_price[1]
            c == Cand(p)
            res == df_atm_grouped
        IN  /\ \A i \in 1..Len(c) :
                  Cardinality({k \in 1..Len(res) :
                      res[k].expiration = c[i].expiration}) = 1
            /\ \A k \in 1..Len(res) :
                  \E i \in 1..Len(c) :
                      /\ c[i] = res[k]
                      /\ \A j \in 1..Len(c) :
                            c[j].expiration = res[k].expiration =>
                                /\ Dist(c[j], p) >= Dist(c[i], p)
                                /\ (j < i => Dist(c[j], p) > Dist(c[i], p))

\* C10: with a non-empty window and a present price, the result is the
\* per-expiration nearest-strike selection over the strikes within 5% of the
\* price when there are some, and over the full window when there are none;
\* it is never empty.
C10_TwoStageCandidates ==
    (Selected /\ ~Empty(df_two_months) /\ current_price # None) =>
        LET p == current_price[1]
        IN  /\ Band(p) # <<>> => df_atm_grouped = GroupApply(Band(p), p)
            /\ Band(p) = <<>> => df_atm_grouped = GroupApply(df_two_months, p)
            /\ ~Empty(df_atm_grouped)

====
